---- MODULE Spec2Model ----
(***************************************************************************)
(* Model of app.py: the load_data() function (source selection, schema     *)
(* check, field coercion, absent-row drop, coordinate normalisation, sort) *)
(* and the module-level script that follows it (date clamp, time grouping, *)
(* grouped aggregation, colour range), plus Streamlit's st.cache_data      *)
(* memoisation of load_data across script runs.                            *)
(*                                                                         *)
(* Numbers.  A float is modelled in fixed point: an integer count of       *)
(* hundredths (48.85 is 4885), or NaN.  Sums and means are exact           *)
(* rationals; binary floating-point rounding error is outside the model.   *)
(* Text.  A string is a sequence of one-character strings.                 *)
(* Dates. A date is the integer y*10000 + m*100 + d; NaT is 0.             *)
(***************************************************************************)
EXTENDS Integers, Sequences, FiniteSets, TLC

VARIABLES
    pc,          \* position of the script run
    csvs,        \* names of the *.csv files in DATA_DIR (integers, name order)
    columns,     \* column names of the selected file
    input,       \* rows of the selected file as read by pd.read_csv
    TIME_STEP,   \* "Yearly" or "Monthly"
    path,        \* the selected file (0: none)
    df,          \* the data frame
    agg,         \* the aggregated frame
    range_color, \* <<min, max>> or <<>>
    error,       \* the failure the run halted with ("" if none)
    missing,     \* the set reported by the schema check
    trace,       \* the stages run so far, in order
    x,           \* coordinate function check: the argument
    y,           \* coordinate function check: the result
    dataDir,     \* cache check: the csv file in DATA_DIR, <<name, content>> or <<>>
    cache,       \* cache check: st.cache_data's entry for load_data()
    out,         \* cache check: what the last run's load_data() call returned
    dirAtRun,    \* cache check: dataDir when the last run started
    dirAtPrev,   \* cache check: dataDir when the run before it started
    runs         \* cache check: number of script runs so far

pipeVars  == <<pc, csvs, columns, input, TIME_STEP, path, df, agg, range_color,
               error, missing, trace>>
coordVars == <<x, y>>
cacheVars == <<dataDir, cache, out, dirAtRun, dirAtPrev, runs>>
vars      == <<pipeVars, coordVars, cacheVars>>

----------------------------------------------------------------------------
(* Bounds of the model *)

MaxRows == 2    \* rows in the input file
MaxLen  == 3    \* characters in a coordinate text (coordinate function check)
MaxRuns == 3    \* script runs (cache check)

----------------------------------------------------------------------------
(* Cells and floats *)

Num(v)  == [t |-> "num", v |-> v, s |-> <<>>]   \* a number, in hundredths
Txt(s)  == [t |-> "txt", v |-> 0, s |-> s]      \* a text
NaN     == [t |-> "nan", v |-> 0, s |-> <<>>]   \* absent / not a number
Failed  == [t |-> "err", v |-> 0, s |-> <<>>]   \* ValueError raised

IsNa(c) == c.t = "nan"

Digits == {"0", "1", "2", "3", "4", "5", "6", "7", "8", "9"}

DigitVal(c) ==
    CASE c = "0" -> 0 [] c = "1" -> 1 [] c = "2" -> 2 [] c = "3" -> 3
      [] c = "4" -> 4 [] c = "5" -> 5 [] c = "6" -> 6 [] c = "7" -> 7
      [] c = "8" -> 8 [] c = "9" -> 9

RECURSIVE LStrip(_)
LStrip(s) == IF s # <<>> /\ Head(s) = " " THEN LStrip(Tail(s)) ELSE s

RECURSIVE RStrip(_)
RStrip(s) ==
    IF s # <<>> /\ s[Len(s)] = " " THEN RStrip(SubSeq(s, 1, Len(s) - 1)) ELSE s

\* str.strip()
Strip(s) == RStrip(LStrip(s))

RECURSIVE DigitsValue(_)
DigitsValue(s) ==
    IF s = <<>> THEN 0
    ELSE 10 * DigitsValue(SubSeq(s, 1, Len(s) - 1)) + DigitVal(s[Len(s)])

AllDigits(s) == \A i \in 1..Len(s) : s[i] \in Digits

\* the fraction digits of a decimal text, as hundredths (at most two digits)
FracValue(f) ==
    CASE Len(f) = 0 -> 0
      [] Len(f) = 1 -> 10 * DigitVal(f[1])
      [] OTHER      -> 10 * DigitVal(f[1]) + DigitVal(f[2])

\* An unsigned decimal: digits, optionally with one ".", at least one digit.
DotAt(s) == {i \in 1..Len(s) : s[i] = "."}

UnsignedOk(s) ==
    \/ s # <<>> /\ AllDigits(s)
    \/ /\ Cardinality(DotAt(s)) = 1
       /\ Len(s) >= 2
       /\ LET d == CHOOSE i \in DotAt(s) : TRUE
          IN  /\ AllDigits(SubSeq(s, 1, d - 1))
              /\ AllDigits(SubSeq(s, d + 1, Len(s)))

UnsignedValue(s) ==
    IF DotAt(s) = {} THEN 100 * DigitsValue(s)
    ELSE LET d == CHOOSE i \in DotAt(s) : TRUE
         IN  100 * DigitsValue(SubSeq(s, 1, d - 1))
               + FracValue(SubSeq(s, d + 1, Len(s)))

\* Python's float(str): surrounding whitespace is ignored, an optional sign,
\* then "nan" or a decimal number; anything else raises ValueError.
\* (Exponents, "inf", underscores and upper-case "NAN" are not modelled.)
ParseFloat(s) ==
    LET b    == Strip(s)
        neg  == b # <<>> /\ Head(b) = "-"
        sgn  == b # <<>> /\ Head(b) \in {"-", "+"}
        body == IF sgn THEN Tail(b) ELSE b
    IN  IF body = <<"n", "a", "n">> THEN NaN
        ELSE IF UnsignedOk(body)
             THEN Num((IF neg THEN -1 ELSE 1) * UnsignedValue(body))
             ELSE Failed

\* float * mult
Times(f, mult) == IF f.t = "num" THEN Num(f.v * mult) ELSE f

\* a mutant of _to_float: the suffix test ignores case
_to_float_anycase(c) ==
    IF c.t # "txt" THEN c
    ELSE LET s == Strip(c.s)
             suffixed == s # <<>> /\ s[Len(s)] \in {"N", "S", "E", "W", "n", "s", "e", "w"}
             mult == IF suffixed /\ s[Len(s)] \in {"S", "W", "s", "w"} THEN -1 ELSE 1
             r == IF suffixed THEN SubSeq(s, 1, Len(s) - 1) ELSE s
         IN  Times(ParseFloat(r), mult)

\* a mutant of _to_float: the multiplier is added instead of multiplied
_to_float_added(c) ==
    IF c.t # "txt" THEN c
    ELSE LET s == Strip(c.s)
             suffixed == s # <<>> /\ s[Len(s)] \in {"N", "S", "E", "W"}
             mult == IF suffixed /\ s[Len(s)] \in {"S", "W"} THEN -1 ELSE 1
             r == IF suffixed THEN SubSeq(s, 1, Len(s) - 1) ELSE s
             f == ParseFloat(r)
         IN  IF f.t = "num" THEN Num(f.v + 100 * mult) ELSE f

\* _to_float: a number passes through; a text is stripped, a final N/S/E/W
\* is removed (S and W negate) and the rest goes to float().
_to_float(c) ==
    IF c.t # "txt" THEN c
    ELSE LET s == Strip(c.s)
             suffixed == s # <<>> /\ s[Len(s)] \in {"N", "S", "E", "W"}
             mult == IF suffixed /\ s[Len(s)] \in {"S", "W"} THEN -1 ELSE 1
             r == IF suffixed THEN SubSeq(s, 1, Len(s) - 1) ELSE s
         IN  Times(ParseFloat(r), mult)

----------------------------------------------------------------------------
(* Dates *)

NaT == 0

IsLeap(yr) == (yr % 4 = 0 /\ yr % 100 # 0) \/ yr % 400 = 0

DaysIn(yr, m) ==
    CASE m \in {4, 6, 9, 11} -> 30
      [] m = 2 -> IF IsLeap(yr) THEN 29 ELSE 28
      [] OTHER -> 31

\* pd.to_datetime(..., errors="coerce") of one cell: a raw dt is <<y, m, d>>
\* as written in the file ("y-m-d"), or <<>> for an empty cell.  What is not
\* a calendar date becomes NaT, and so does a date outside the range of a
\* nanosecond Timestamp (1677-09-21 .. 2262-04-11), as in pandas 1 and 2.
\* (The time of day is not modelled: the file holds dates.)
to_datetime(raw) ==
    IF /\ Len(raw) = 3
       /\ raw[2] \in 1..12
       /\ raw[3] \in 1..DaysIn(raw[1], raw[2])
       /\ raw[1] * 10000 + raw[2] * 100 + raw[3] \in 16770922..22620411
    THEN raw[1] * 10000 + raw[2] * 100 + raw[3]
    ELSE NaT

\* pd.to_numeric(..., errors="coerce") of one cell
to_numeric(c) ==
    IF c.t = "txt"
    THEN LET f == ParseFloat(c.s) IN IF f.t = "err" THEN NaN ELSE f
    ELSE c

YearOf(dt)  == dt \div 10000
MonthOf(dt) == (dt \div 100) % 100

\* the clamp interval of the script
ClampLo == 17430101
ClampHi == 20131231

----------------------------------------------------------------------------
(* Labels: texts compared as Python compares strings *)

Ord(c) == IF c = "-" THEN 45 ELSE 48 + DigitVal(c)

DigitChar(n) ==
    CASE n = 0 -> "0" [] n = 1 -> "1" [] n = 2 -> "2" [] n = 3 -> "3"
      [] n = 4 -> "4" [] n = 5 -> "5" [] n = 6 -> "6" [] n = 7 -> "7"
      [] n = 8 -> "8" [] n = 9 -> "9"

\* str(n) for n >= 0
RECURSIVE IntStr(_)
IntStr(n) ==
    IF n < 10 THEN <<DigitChar(n)>>
    ELSE Append(IntStr(n \div 10), DigitChar(n % 10))

\* "%m": two digits
TwoDigits(n) == <<DigitChar(n \div 10), DigitChar(n % 10)>>

\* s < t for texts
RECURSIVE StrLess(_, _)
StrLess(s, t) ==
    IF t = <<>> THEN FALSE
    ELSE IF s = <<>> THEN TRUE
    ELSE IF Ord(Head(s)) # Ord(Head(t)) THEN Ord(Head(s)) < Ord(Head(t))
    ELSE StrLess(Tail(s), Tail(t))

----------------------------------------------------------------------------
(* Frames *)

\* City and Country are texts; the model names them by their rank in
\* alphabetical order, 0 for an empty cell (NaN).
CityNames    == <<"Lima", "Paris">>
CountryNames == <<"France", "Peru">>

expected == {"dt", "AverageTemperature", "AverageTemperatureUncertainty",
             "City", "Country", "Latitude", "Longitude"}

\* a mutant of MissingOf: the difference taken the wrong way round
MissingOf_reversed(cols) == cols \ expected

\* expected - set(df.columns)
MissingOf(cols) == expected \ cols

SeqMap(Op(_), s) == [k \in 1..Len(s) |-> Op(s[k])]

RECURSIVE SeqFilter(_, _)
SeqFilter(Keep(_), s) ==
    IF s = <<>> THEN <<>>
    ELSE IF Keep(Head(s)) THEN <<Head(s)>> \o SeqFilter(Keep, Tail(s))
    ELSE SeqFilter(Keep, Tail(s))

\* lines 39-41 on one row
CoerceRow(r) ==
    [r EXCEPT !.dt = to_datetime(r.dt),
              !.AverageTemperature = to_numeric(r.AverageTemperature),
              !.AverageTemperatureUncertainty =
                    to_numeric(r.AverageTemperatureUncertainty)]

Coerce(frame) == SeqMap(CoerceRow, frame)

\* a mutant of Complete: the temperature is not in the subset
Complete_notemp(r) ==
    /\ r.dt # NaT
    /\ ~IsNa(r.Latitude) /\ ~IsNa(r.Longitude)
    /\ r.City # 0 /\ r.Country # 0

\* the rows df.dropna(subset=[...]) keeps
Complete(r) ==
    /\ r.dt # NaT
    /\ ~IsNa(r.AverageTemperature)
    /\ ~IsNa(r.Latitude) /\ ~IsNa(r.Longitude)
    /\ r.City # 0 /\ r.Country # 0

DropNa(frame) == SeqFilter(Complete, frame)

\* a mutant of NormalizeRow: the longitude is left as read
NormalizeRow_latonly(r) == [r EXCEPT !.Latitude = _to_float(r.Latitude)]

\* lines 55-56 on one row
NormalizeRow(r) ==
    [r EXCEPT !.Latitude = _to_float(r.Latitude),
              !.Longitude = _to_float(r.Longitude)]

Normalize(frame) == SeqMap(NormalizeRow, frame)

\* some call of _to_float raised
Raised(frame) ==
    \E k \in 1..Len(frame) :
        frame[k].Latitude.t = "err" \/ frame[k].Longitude.t = "err"

Perms(n) == {p \in [1..n -> 1..n] : \A a, b \in 1..n : a # b => p[a] # p[b]}

\* df.sort_values("dt"): the default sort is not stable, so rows with equal
\* dt may come out in any order
SortOrders(frame) ==
    LET n == Len(frame)
    IN  {[k \in 1..n |-> frame[p[k]]] : p \in
            {q \in Perms(n) : \A k \in 1..(n - 1) : frame[q[k]].dt <= frame[q[k + 1]].dt}}

\* a mutant of InRange: the upper bound is exclusive
InRange_exclusive(r) == r.dt # NaT /\ r.dt >= ClampLo /\ r.dt < ClampHi

\* line 69 (a comparison with NaT is False)
InRange(r) == r.dt # NaT /\ r.dt >= ClampLo /\ r.dt <= ClampHi

Clamp(frame) == SeqFilter(InRange, frame)

----------------------------------------------------------------------------
(* Time grouping and aggregation *)

\* dt.to_period("Y" / "M").to_timestamp(): the first day of the bucket
PeriodStart(step, dt) ==
    IF step = "Yearly" THEN YearOf(dt) * 10000 + 101
    ELSE YearOf(dt) * 10000 + MonthOf(dt) * 100 + 1

\* t.year.astype(str) / t.strftime("%Y-%m")
Label(step, t) ==
    IF step = "Yearly" THEN IntStr(YearOf(t))
    ELSE IntStr(YearOf(t)) \o <<"-">> \o TwoDigits(MonthOf(t))

\* lines 75-80: the frame with its columns t and t_label
Bin(step, frame) ==
    [k \in 1..Len(frame) |->
      LET start == PeriodStart(step, frame[k].dt) IN
        [i |-> frame[k].i,
         dt |-> frame[k].dt,
         AverageTemperature |-> frame[k].AverageTemperature,
         AverageTemperatureUncertainty |-> frame[k].AverageTemperatureUncertainty,
         City |-> frame[k].City,
         Country |-> frame[k].Country,
         Latitude |-> frame[k].Latitude,
         Longitude |-> frame[k].Longitude,
         t |-> start,
         t_label |-> Label(step, start)]]

KeyOf(r) == <<r.t_label, r.City, r.Country>>

\* k1 < k2 for group keys (t_label, City, Country), compared field by field
KeyLess(k1, k2) ==
    \/ StrLess(k1[1], k2[1])
    \/ k1[1] = k2[1] /\ k1[2] < k2[2]
    \/ k1[1] = k2[1] /\ k1[2] = k2[2] /\ k1[3] < k2[3]

RECURSIVE SortKeys(_)
SortKeys(S) ==
    IF S = {} THEN <<>>
    ELSE LET m == CHOOSE k \in S : \A o \in S : o = k \/ KeyLess(k, o)
         IN  <<m>> \o SortKeys(S \ {m})

\* the keys in order of first appearance in the frame
RECURSIVE AppearanceKeys(_, _)
AppearanceKeys(frame, seen) ==
    IF frame = <<>> THEN <<>>
    ELSE IF KeyOf(Head(frame)) \in seen THEN AppearanceKeys(Tail(frame), seen)
    ELSE <<KeyOf(Head(frame))>>
            \o AppearanceKeys(Tail(frame), seen \cup {KeyOf(Head(frame))})

\* groupby drops the rows with a NaN key (dropna=True)
Keyed(frame) == SeqFilter(LAMBDA r : r.City # 0 /\ r.Country # 0, frame)

\* a mutant of GroupKeys: groupby(..., sort=False)
GroupKeys_unsorted(frame) == AppearanceKeys(Keyed(frame), {})

\* a mutant of GroupKeys: one group per row
GroupKeys_perrow(frame) == SeqMap(KeyOf, Keyed(frame))

\* the group keys of groupby(["t_label", "City", "Country"]), sorted (sort=True)
GroupKeys(frame) ==
    LET kept == Keyed(frame)
    IN  SortKeys({KeyOf(kept[k]) : k \in 1..Len(kept)})

\* A mean: the exact rational n/d of hundredths in lowest terms, or NaN.
RECURSIVE Gcd(_, _)
Gcd(a, b) == IF b = 0 THEN a ELSE Gcd(b, a % b)

Abs(a) == IF a < 0 THEN -a ELSE a

Rat(n, d) ==
    LET g == Gcd(Abs(n), d)
    IN  [nan |-> FALSE, n |-> n \div g, d |-> d \div g]

RatNaN == [nan |-> TRUE, n |-> 0, d |-> 1]

RECURSIVE SumOf(_)
SumOf(cells) == IF cells = <<>> THEN 0 ELSE Head(cells).v + SumOf(Tail(cells))

\* Series.mean(): NaN values are skipped; NaN if none is left
Mean(cells) ==
    LET nums == SeqFilter(LAMBDA c : c.t = "num", cells)
    IN  IF nums = <<>> THEN RatNaN ELSE Rat(SumOf(nums), Len(nums))

\* Series.round(1): to one decimal, ties to the even digit
Round1(q) ==
    IF q.nan THEN q
    ELSE LET dd == 10 * q.d
             fl == q.n \div dd
             rem == q.n - fl * dd
             up == \/ 2 * rem > dd
                   \/ 2 * rem = dd /\ fl % 2 = 1
         IN  Rat(10 * (IF up THEN fl + 1 ELSE fl), 1)

Group(frame, key) == SeqFilter(LAMBDA r : KeyOf(r) = key, frame)

Column(frame, Field(_)) == SeqMap(Field, frame)

\* a mutant of AggRow: the coordinates are rounded like the temperatures
AggRow_roundall(frame, key) ==
    LET g == Group(frame, key)
    IN  [t_label |-> key[1], City |-> key[2], Country |-> key[3],
         AverageTemperature |->
            Round1(Mean(Column(g, LAMBDA r : r.AverageTemperature))),
         AverageTemperatureUncertainty |->
            Round1(Mean(Column(g, LAMBDA r : r.AverageTemperatureUncertainty))),
         Latitude |-> Round1(Mean(Column(g, LAMBDA r : r.Latitude))),
         Longitude |-> Round1(Mean(Column(g, LAMBDA r : r.Longitude)))]

\* lines 83-94 for one group: the four means, the two temperatures rounded
AggRow(frame, key) ==
    LET g == Group(frame, key)
    IN  [t_label |-> key[1], City |-> key[2], Country |-> key[3],
         AverageTemperature |->
            Round1(Mean(Column(g, LAMBDA r : r.AverageTemperature))),
         AverageTemperatureUncertainty |->
            Round1(Mean(Column(g, LAMBDA r : r.AverageTemperatureUncertainty))),
         Latitude |-> Mean(Column(g, LAMBDA r : r.Latitude)),
         Longitude |-> Mean(Column(g, LAMBDA r : r.Longitude))]

\* lines 83-94
Aggregated(frame) ==
    LET keys == GroupKeys(frame)
    IN  [k \in 1..Len(keys) |-> AggRow(frame, keys[k])]

\* q1 <= q2 for two means that are numbers
RatLeq(q1, q2) == q1.n * q2.d <= q2.n * q1.d

\* lines 101-107
ColorRange(frame) ==
    LET temps == {frame[k].AverageTemperature : k \in 1..Len(frame)}
        nums  == {q \in temps : ~q.nan}
    IN  IF nums = {} THEN <<RatNaN, RatNaN>>
        ELSE <<CHOOSE q \in nums : \A o \in nums : RatLeq(q, o),
               CHOOSE q \in nums : \A o \in nums : RatLeq(o, q)>>

----------------------------------------------------------------------------
(* The input files of the model *)

T_4885N == <<"4", "8", ".", "8", "5", "N">>
T_235E  == <<"2", ".", "3", "5", "E">>
T_1205S == <<"1", "2", ".", "0", "5", "S">>
T_7703W == <<"7", "7", ".", "0", "3", "W">>
T_95N   == <<"9", "5", "N">>
T_181E  == <<"1", "8", "1", "E">>
T_xN    == <<"x", "N">>
T_x     == <<"x">>
T_nanN  == <<"n", "a", "n", "N">>
T_4885n == <<"4", "8", ".", "8", "5", "n">>
T_123   == <<"1", "2", ".", "3">>

\* ("1900-01-15", 10.12, 0.5, "Paris", "France", "48.85N", "2.35E")
Paris ==
    [dt |-> <<1900, 1, 15>>,
     AverageTemperature |-> Num(1012),
     AverageTemperatureUncertainty |-> Num(50),
     City |-> 2, Country |-> 1,
     Latitude |-> Txt(T_4885N), Longitude |-> Txt(T_235E)]

\* ("1900-01-15", 21.35, 0.45, "Lima", "Peru", "12.05S", "77.03W")
Lima ==
    [dt |-> <<1900, 1, 15>>,
     AverageTemperature |-> Num(2135),
     AverageTemperatureUncertainty |-> Num(45),
     City |-> 1, Country |-> 2,
     Latitude |-> Txt(T_1205S), Longitude |-> Txt(T_7703W)]

DtValues ==
    {<<>>, <<1900, 2, 30>>, <<1600, 1, 1>>, <<1742, 12, 31>>, <<1743, 1, 1>>,
     <<1900, 2, 20>>, <<2013, 12, 31>>, <<2014, 1, 1>>}

LatValues ==
    {Txt(T_95N), Txt(T_xN), Txt(T_nanN), Txt(T_4885n), NaN, Num(-9100)}

LonValues == {Txt(T_x), Txt(T_181E), NaN}

TempValues == {Num(1025), Txt(T_x), Txt(T_123)}

\* The rows a file of the model is made of: the Paris row, the Paris row
\* with one field changed, and a few rows with two changes.
RowValues ==
    {Paris, Lima}
      \cup {[Paris EXCEPT !.dt = v] : v \in DtValues}
      \cup {[Paris EXCEPT !.AverageTemperature = v] : v \in TempValues}
      \cup {[Paris EXCEPT !.AverageTemperatureUncertainty = NaN]}
      \cup {[Paris EXCEPT !.City = 0], [Paris EXCEPT !.Country = 0],
            [Paris EXCEPT !.Country = 2]}
      \cup {[Paris EXCEPT !.Latitude = v] : v \in LatValues}
      \cup {[Paris EXCEPT !.Longitude = v] : v \in LonValues}
      \cup {[Paris EXCEPT !.dt = <<>>, !.Latitude = Txt(T_xN)],
            [Paris EXCEPT !.dt = <<1742, 12, 31>>, !.Latitude = Txt(T_xN)],
            [Paris EXCEPT !.AverageTemperature = Txt(T_x), !.Longitude = Txt(T_x)],
            [Lima EXCEPT !.dt = <<1743, 1, 1>>]}

\* read_csv gives each row its position as index
Indexed(rows) ==
    [k \in 1..Len(rows) |->
        [i |-> k,
         dt |-> rows[k].dt,
         AverageTemperature |-> rows[k].AverageTemperature,
         AverageTemperatureUncertainty |-> rows[k].AverageTemperatureUncertainty,
         City |-> rows[k].City,
         Country |-> rows[k].Country,
         Latitude |-> rows[k].Latitude,
         Longitude |-> rows[k].Longitude]]

Tables == UNION {[1..n -> RowValues] : n \in 0..MaxRows}

ColumnSets == {expected, expected \ {"Country"}, {"dt", "City", "Station"}}

CoordIdle == x = NaN /\ y = NaN

CacheIdle ==
    /\ dataDir = <<>> /\ cache = <<>> /\ out = <<>>
    /\ dirAtRun = <<>> /\ dirAtPrev = <<>> /\ runs = 0

PipeIdle ==
    /\ pc = "idle" /\ csvs = {} /\ columns = {} /\ input = <<>>
    /\ TIME_STEP = "Yearly" /\ path = 0 /\ df = <<>> /\ agg = <<>>
    /\ range_color = <<>> /\ error = "" /\ missing = {} /\ trace = <<>>

Init ==
    /\ pc = "locate"
    /\ TIME_STEP \in {"Yearly", "Monthly"}
    /\ \/ csvs = {} /\ columns = {} /\ input = <<>>
       \/ /\ csvs = {1, 2}
          /\ columns \in ColumnSets
          /\ \E rows \in Tables : input = Indexed(rows)
    /\ path = 0 /\ df = <<>> /\ agg = <<>> /\ range_color = <<>>
    /\ error = "" /\ missing = {} /\ trace = <<>>
    /\ CoordIdle /\ CacheIdle

----------------------------------------------------------------------------
(* The run, stage by stage *)

Min(S) == CHOOSE m \in S : \A o \in S : m <= o

Halt(e) == pc' = "halt" /\ error' = e

\* lines 19-22
LocateSource ==
    /\ pc = "locate"
    /\ trace' = Append(trace, "locate")
    /\ IF csvs = {}
       THEN Halt("NoDatasetFound") /\ UNCHANGED path
       ELSE pc' = "validate" /\ path' = Min(csvs) /\ UNCHANGED error
    /\ UNCHANGED <<csvs, columns, input, TIME_STEP, df, agg, range_color, missing>>
    /\ UNCHANGED <<coordVars, cacheVars>>

\* lines 24-37
ValidateSchema ==
    /\ pc = "validate"
    /\ trace' = Append(trace, "validate")
    /\ df' = input
    /\ missing' = MissingOf(columns)
    /\ IF missing' # {} THEN Halt("MissingColumns")
       ELSE pc' = "coerce" /\ UNCHANGED error
    /\ UNCHANGED <<csvs, columns, input, TIME_STEP, path, agg, range_color>>
    /\ UNCHANGED <<coordVars, cacheVars>>

\* lines 39-41
CoerceFields ==
    /\ pc = "coerce"
    /\ trace' = Append(trace, "coerce")
    /\ df' = Coerce(df)
    /\ pc' = "dropna"
    /\ UNCHANGED <<csvs, columns, input, TIME_STEP, path, agg, range_color,
                   error, missing>>
    /\ UNCHANGED <<coordVars, cacheVars>>

\* line 42
DropAbsent ==
    /\ pc = "dropna"
    /\ trace' = Append(trace, "dropna")
    /\ df' = DropNa(df)
    /\ pc' = "normalize"
    /\ UNCHANGED <<csvs, columns, input, TIME_STEP, path, agg, range_color,
                   error, missing>>
    /\ UNCHANGED <<coordVars, cacheVars>>

\* lines 44-56: a ValueError of float() ends the run
NormalizeCoordinates ==
    /\ pc = "normalize"
    /\ trace' = Append(trace, "normalize")
    /\ IF Raised(Normalize(df))
       THEN Halt("InvalidCoordinate") /\ UNCHANGED df
       ELSE pc' = "sort" /\ df' = Normalize(df) /\ UNCHANGED error
    /\ UNCHANGED <<csvs, columns, input, TIME_STEP, path, agg, range_color, missing>>
    /\ UNCHANGED <<coordVars, cacheVars>>

\* lines 58-59
SortByDate ==
    /\ pc = "sort"
    /\ trace' = Append(trace, "sort")
    /\ df' \in SortOrders(df)
    /\ pc' = "clamp"
    /\ UNCHANGED <<csvs, columns, input, TIME_STEP, path, agg, range_color,
                   error, missing>>
    /\ UNCHANGED <<coordVars, cacheVars>>

\* lines 68-72
ClampRange ==
    /\ pc = "clamp"
    /\ trace' = Append(trace, "clamp")
    /\ df' = Clamp(df)
    /\ IF df' = <<>> THEN Halt("EmptyDataset")
       ELSE pc' = "bin" /\ UNCHANGED error
    /\ UNCHANGED <<csvs, columns, input, TIME_STEP, path, agg, range_color, missing>>
    /\ UNCHANGED <<coordVars, cacheVars>>

\* lines 74-80
TimeGrouping ==
    /\ pc = "bin"
    /\ trace' = Append(trace, "bin")
    /\ df' = Bin(TIME_STEP, df)
    /\ pc' = "aggregate"
    /\ UNCHANGED <<csvs, columns, input, TIME_STEP, path, agg, range_color,
                   error, missing>>
    /\ UNCHANGED <<coordVars, cacheVars>>

\* lines 82-98
Aggregate ==
    /\ pc = "aggregate"
    /\ trace' = Append(trace, "aggregate")
    /\ agg' = Aggregated(df)
    /\ IF agg' = <<>> THEN Halt("EmptyAggregate")
       ELSE pc' = "color" /\ UNCHANGED error
    /\ UNCHANGED <<csvs, columns, input, TIME_STEP, path, df, range_color, missing>>
    /\ UNCHANGED <<coordVars, cacheVars>>

\* lines 100-107 (USE_GLOBAL_COLOR_SCALE is True)
ColorScale ==
    /\ pc = "color"
    /\ trace' = Append(trace, "color")
    /\ range_color' = ColorRange(agg)
    /\ pc' = "done"
    /\ UNCHANGED <<csvs, columns, input, TIME_STEP, path, df, agg, error, missing>>
    /\ UNCHANGED <<coordVars, cacheVars>>

Next ==
    \/ LocateSource
    \/ ValidateSchema
    \/ CoerceFields
    \/ DropAbsent
    \/ NormalizeCoordinates
    \/ SortByDate
    \/ ClampRange
    \/ TimeGrouping
    \/ Aggregate
    \/ ColorScale

Spec == Init /\ [][Next]_vars

----------------------------------------------------------------------------
(* The coordinate function on its own: _to_float applied to one value *)

Pending == [t |-> "pending", v |-> 0, s |-> <<>>]

Alphabet == {"9", "5", ".", "-", "N", "S", "E", "W", "n", "a", " "}

Texts == UNION {[1..n -> Alphabet] : n \in 0..MaxLen}

\* the texts whose number the fixed-point floats hold exactly
FracOk(s) ==
    \A i \in DotAt(s) : Cardinality({j \in (i + 1)..Len(s) : s[j] \in Digits}) <= 2

CoordInputs ==
    {Txt(s) : s \in {u \in Texts : FracOk(u)}} \cup {Num(-9100), Num(0), Num(4885), NaN}

InitCoord ==
    /\ x \in CoordInputs
    /\ y = Pending
    /\ PipeIdle /\ CacheIdle

\* lines 55-56 for one cell
ApplyToFloat ==
    /\ y = Pending
    /\ y' = _to_float(x)
    /\ UNCHANGED <<x, pipeVars, cacheVars>>

NextCoord == ApplyToFloat

SpecCoord == InitCoord /\ [][NextCoord]_vars

----------------------------------------------------------------------------
(* st.cache_data: load_data() across script runs *)

\* the contents the data file can have (all with the seven columns)
CacheFiles ==
    << <<Paris>>,
       <<Lima, [Paris EXCEPT !.dt = <<2013, 12, 31>>]>>,
       <<[Paris EXCEPT !.Latitude = Txt(T_xN)]>> >>

FileNames == {1, 2}

\* the data directory: <<>> without a csv file, else <<name, content>>
DirStates == {<<>>} \cup (FileNames \X (1..Len(CacheFiles)))

\* lines 39-56
Loaded(frame) == Normalize(DropNa(Coerce(frame)))

\* what a call of load_data's body returns or raises for a data directory
load_data(d) ==
    IF d = <<>> THEN [error |-> "NoDatasetFound", df |-> <<>>, name |-> 0]
    ELSE LET f == Loaded(Indexed(CacheFiles[d[2]]))
         IN  IF Raised(f)
             THEN [error |-> "InvalidCoordinate", df |-> <<>>, name |-> 0]
             ELSE [error |-> "", df |-> CHOOSE o \in SortOrders(f) : TRUE,
                   name |-> d[1]]

InitCache ==
    /\ dataDir \in DirStates
    /\ cache = <<>> /\ out = <<>>
    /\ dirAtRun = <<>> /\ dirAtPrev = <<>> /\ runs = 0
    /\ PipeIdle /\ CoordIdle

\* the csv file is written, replaced, renamed or removed between two runs
ChangeFile ==
    /\ \E d \in DirStates : d # dataDir /\ dataDir' = d
    /\ UNCHANGED <<cache, out, dirAtRun, dirAtPrev, runs, pipeVars, coordVars>>

\* lines 17-18 and 65-66: the script calls load_data(); st.cache_data keys
\* the entry by the function and its arguments (none), returns the entry
\* when there is one, and stores a value returned (not an exception raised)
RunScript ==
    /\ runs < MaxRuns
    /\ runs' = runs + 1
    /\ dirAtPrev' = dirAtRun
    /\ dirAtRun' = dataDir
    /\ IF cache # <<>>
       THEN out' = cache[1] /\ UNCHANGED cache
       ELSE /\ out' = load_data(dataDir)
            /\ cache' = IF out'.error = "" THEN <<out'>> ELSE cache
    /\ UNCHANGED <<dataDir, pipeVars, coordVars>>

NextCache == ChangeFile \/ RunScript

SpecCache == InitCache /\ [][NextCache]_vars

----------------------------------------------------------------------------
(* Vocabulary of the properties *)

Terminal == pc \in {"done", "halt"}

\* the stages after the date clamp has kept at least one row
PastFilter == pc \in {"bin", "aggregate", "color", "done"}

\* the stages after the aggregation has produced its frame
HasOutput == pc \in {"color", "done"}

RequiredFields ==
    {"dt", "AverageTemperature", "AverageTemperatureUncertainty",
     "City", "Country", "Latitude", "Longitude"}

SchemaOk == csvs # {} /\ RequiredFields \subseteq columns

\* an input row has its six fields present once dt and temperature are parsed
RowPresent(r) ==
    /\ to_datetime(r.dt) # NaT
    /\ ~IsNa(to_numeric(r.AverageTemperature))
    /\ ~IsNa(r.Latitude) /\ ~IsNa(r.Longitude)
    /\ r.City # 0 /\ r.Country # 0

\* ... and its dt within 1743-01-01 .. 2013-12-31, both included
RowValid(r) == RowPresent(r) /\ to_datetime(r.dt) \in 17430101..20131231

ValidInput == {k \in 1..Len(input) : RowValid(input[k])}

Contributors == {df[k].i : k \in 1..Len(df)}

\* the text of a coordinate without its final N/S/E/W
Unsuffixed(s) ==
    LET b == Strip(s)
    IN  IF b # <<>> /\ b[Len(b)] \in {"N", "S", "E", "W"}
        THEN SubSeq(b, 1, Len(b) - 1) ELSE b

\* a textual coordinate whose text float() rejects
BadCoordinate(c) == c.t = "txt" /\ ParseFloat(Unsuffixed(c.s)).t = "err"

\* a coordinate that is a number, or a number followed by N, S, E or W
WellFormed(c) ==
    \/ c.t = "num"
    \/ /\ c.t = "txt" /\ c.s # <<>>
       /\ c.s[Len(c.s)] \in {"N", "S", "E", "W"}
       /\ ParseFloat(SubSeq(c.s, 1, Len(c.s) - 1)).t = "num"

Magnitude(c) ==
    IF c.t = "num" THEN Abs(c.v)
    ELSE Abs(ParseFloat(SubSeq(c.s, 1, Len(c.s) - 1)).v)

\* the chronological period a label names, as year*100 + month (0 for a year)
PeriodOfLabel(l) ==
    IF Len(l) = 4 THEN 100 * DigitsValue(l)
    ELSE 100 * DigitsValue(SubSeq(l, 1, Len(l) - 3))
           + DigitsValue(SubSeq(l, Len(l) - 1, Len(l)))

Permuted(frame, p) == [k \in 1..Len(frame) |-> frame[p[k]]]

\* every aggregated frame the script can produce from a frame as read
Outputs(step, frame) ==
    LET loaded == Loaded(frame)
    IN  {Aggregated(Bin(step, Clamp(o))) : o \in SortOrders(loaded)}

\* q is v (hundredths) rounded to one decimal, a tie going to the even digit
IsRounded1(q, v) ==
    /\ ~q.nan /\ q.d = 1 /\ q.n % 10 = 0
    /\ Abs(q.n - v) <= 5
    /\ Abs(q.n - v) = 5 => (q.n \div 10) % 2 = 0

\* an aggregated value is a cell's value rounded to one decimal / unchanged
RoundedFrom(q, c) == IF c.t = "num" THEN IsRounded1(q, c.v) ELSE q.nan
SameAs(q, c)      == IF c.t = "num" THEN q = [nan |-> FALSE, n |-> c.v, d |-> 1] ELSE q.nan

RowsOf(a) == {k \in 1..Len(df) : KeyOf(df[k]) = <<a.t_label, a.City, a.Country>>}

----------------------------------------------------------------------------
(* Properties *)

\* C1: the aggregated output is ordered by chronological period, then by
\* City, and is the same whatever the order of the input rows, for both
\* granularities.
C1_SortedAndOrderIndependent ==
    HasOutput =>
        /\ \A k \in 1..(Len(agg) - 1) :
              /\ PeriodOfLabel(agg[k].t_label) <= PeriodOfLabel(agg[k + 1].t_label)
              /\ PeriodOfLabel(agg[k].t_label) = PeriodOfLabel(agg[k + 1].t_label)
                    => agg[k].City <= agg[k + 1].City
        /\ pc = "done" =>
              \A p \in Perms(Len(input)) :
                  Outputs(TIME_STEP, Permuted(input, p)) = {agg}

\* C1 witness: two periods come out in time order from rows given latest first
C1_Witness ==
    /\ pc = "done" /\ Len(input) = 2 /\ Len(agg) = 2
    /\ to_datetime(input[1].dt) > to_datetime(input[2].dt)
    /\ PeriodOfLabel(agg[1].t_label) < PeriodOfLabel(agg[2].t_label)

IntText(d) == IF d < 0 THEN <<"-">> \o IntStr(-d) ELSE IntStr(d)

\* C4: _to_float maps the text of d followed by N or E to +d, followed by
\* S or W to -d, and a number to itself; only the final character counts
\* and only upper-case N, S, E, W are a suffix.
C4_Normalization ==
    y # Pending =>
        /\ x.t = "num" => y = x
        /\ (x.t = "txt" /\ Len(x.s) >= 2
               /\ \A k \in 1..(Len(x.s) - 1) : x.s[k] \in Digits \cup {"-"}) =>
              \A d \in -999..9999 :
                  /\ \A c \in {"N", "E"} :
                        x.s = Append(IntText(d), c) => y = Num(100 * d)
                  /\ \A c \in {"S", "W"} :
                        x.s = Append(IntText(d), c) => y = Num(-100 * d)
        /\ (x.t = "txt" /\ Strip(x.s) # <<>>
               /\ Strip(x.s)[Len(Strip(x.s))] \notin {"N", "S", "E", "W"})
              => y = ParseFloat(x.s)

\* C4 witness: "-9S" has been normalised to +9
C4_Witness == x = Txt(<<"-", "9", "S">>) /\ y = Num(900)

BadSurvivor ==
    \E k \in 1..Len(input) :
        /\ RowPresent(input[k])
        /\ BadCoordinate(input[k].Latitude) \/ BadCoordinate(input[k].Longitude)

C6_CacheNeverMasksChange ==
    (runs >= 2 /\ dirAtRun # dirAtPrev) => out = load_data(dirAtRun)

\* C7: when a required column is missing the run halts at the schema check
\* with exactly the missing names, and no row has been coerced, normalised,
\* filtered or aggregated.
C7_SchemaCheckFirst ==
    (csvs # {} /\ ~(RequiredFields \subseteq columns)) =>
        /\ pc \in {"locate", "validate", "halt"}
        /\ pc = "halt" =>
              /\ error = "MissingColumns"
              /\ missing = RequiredFields \ columns
              /\ trace = <<"locate", "validate">>
              /\ df = input
              /\ agg = <<>> /\ range_color = <<>>

\* C7 witness: a file without the Country column has halted the run
C7_Witness ==
    /\ pc = "halt" /\ error = "MissingColumns"
    /\ missing = {"Country"} /\ Len(input) >= 1

\* C8: no two aggregated records share (period_label, City, Country).
C8_UniqueTriples ==
    HasOutput =>
        \A j, k \in 1..Len(agg) :
            j # k => <<agg[j].t_label, agg[j].City, agg[j].Country>>
                       # <<agg[k].t_label, agg[k].City, agg[k].Country>>

\* C8 witness: two rows of different months make one yearly record
C8_Witness ==
    /\ pc = "done" /\ TIME_STEP = "Yearly"
    /\ Len(df) = 2 /\ Len(agg) = 1 /\ df[1].dt # df[2].dt

\* C9 (as stated): the record of a one-row group has all four numeric
\* fields equal to the row's values rounded to one decimal.
C9_AllFieldsRounded ==
    HasOutput =>
        \A j \in 1..Len(agg) :
            Cardinality(RowsOf(agg[j])) = 1 =>
                LET r == df[CHOOSE k \in RowsOf(agg[j]) : TRUE]
                IN  /\ RoundedFrom(agg[j].AverageTemperature, r.AverageTemperature)
                    /\ RoundedFrom(agg[j].AverageTemperatureUncertainty,
                                   r.AverageTemperatureUncertainty)
                    /\ RoundedFrom(agg[j].Latitude, r.Latitude)
                    /\ RoundedFrom(agg[j].Longitude, r.Longitude)

\* C9 (amended): the record of a one-row group has the two temperature
\* fields equal to the row's values rounded to one decimal (ties to even, an
\* absent uncertainty staying absent) and Latitude and Longitude equal to
\* the row's values, not rounded.
C9_TemperaturesRounded ==
    HasOutput =>
        \A j \in 1..Len(agg) :
            Cardinality(RowsOf(agg[j])) = 1 =>
                LET r == df[CHOOSE k \in RowsOf(agg[j]) : TRUE]
                IN  /\ RoundedFrom(agg[j].AverageTemperature, r.AverageTemperature)
                    /\ RoundedFrom(agg[j].AverageTemperatureUncertainty,
                                   r.AverageTemperatureUncertainty)
                    /\ SameAs(agg[j].Latitude, r.Latitude)
                    /\ SameAs(agg[j].Longitude, r.Longitude)

\* C9 witness: a single row with temperature 10.25 and latitude 48.85 gives
\* a record with 10.2 and 48.85
C9_Witness ==
    /\ pc = "done" /\ Len(df) = 1 /\ Len(agg) = 1
    /\ df[1].AverageTemperature = Num(1025) /\ df[1].Latitude = Num(4885)
    /\ agg[1].AverageTemperature = [nan |-> FALSE, n |-> 1020, d |-> 1]
    /\ agg[1].Latitude = [nan |-> FALSE, n |-> 4885, d |-> 1]

\* C10: the run halts with EmptyDataset exactly when no row survives the
\* absent-field drop and the date clamp, before any binning or aggregation;
\* when a row survives the aggregation yields a group, so EmptyAggregate
\* never happens.
C10_EmptyDataset ==
    /\ error = "EmptyDataset" =>
          /\ pc = "halt" /\ ValidInput = {}
          /\ trace = <<"locate", "validate", "coerce", "dropna", "normalize",
                       "sort", "clamp">>
          /\ agg = <<>> /\ range_color = <<>>
    /\ (Terminal /\ error \notin {"NoDatasetFound", "MissingColumns", "InvalidCoordinate"})
          => (error = "EmptyDataset" <=> ValidInput = {})
    /\ error # "EmptyAggregate"
    /\ HasOutput => Len(agg) >= 1

\* C10 witness: a file whose only row is dated 1742-12-31 ends in EmptyDataset
C10_Witness ==
    /\ pc = "halt" /\ error = "EmptyDataset"
    /\ Len(input) = 1 /\ input[1].dt = <<1742, 12, 31>>

====
